---- MODULE Spec2Model ----
(***************************************************************************)
(* Model of the dog_inventory plugin (plugins/inventory/dog_inventory.py): *)
(* one reconciliation run, InventoryModule.parse -> _populate ->           *)
(* parse_group / parse_host, over the inventory accumulator.               *)
(*                                                                         *)
(* Python values are tagged records [t, v]: "none", "str" (a sequence of   *)
(* one-character strings), "list" (a sequence of values) and "dict" (the   *)
(* insertion order of the keys and the mapping).  Dict keys and inventory  *)
(* names are sequences of one-character strings.                           *)
(***************************************************************************)
EXTENDS Integers, Sequences, FiniteSets, TLC

(* ------------------------------ bounds --------------------------------- *)

\* Largest number of records (hosts + live groups + fact groups + filter
\* predicates) in the dataset and configuration of one run.
MaxItems == 4

(* --------------------------- Python values ----------------------------- *)

NoneV == [t |-> "none", v |-> <<>>]
StrV(s) == [t |-> "str", v |-> s]
ListV(s) == [t |-> "list", v |-> s]
DictV(ord, m) == [t |-> "dict", v |-> [ord |-> ord, m |-> m]]
EmptyDict == DictV(<<>>, [k \in {} |-> NoneV])

IsNone(x) == x.t = "none"
IsDict(x) == x.t = "dict"

Keys(d) == d.v.ord
Has(d, k) == k \in DOMAIN d.v.m
Get(d, k) == IF Has(d, k) THEN d.v.m[k] ELSE NoneV
Put(d, k, x) ==
    DictV(IF Has(d, k) THEN d.v.ord ELSE Append(d.v.ord, k),
          [y \in (DOMAIN d.v.m) \cup {k} |-> IF y = k THEN x ELSE d.v.m[y]])
Pop(d, k) ==
    DictV(SelectSeq(d.v.ord, LAMBDA y : y # k),
          [y \in (DOMAIN d.v.m) \ {k} |-> d.v.m[y]])

\* A dict literal from a sequence of <<key, value>> pairs, in order.
RECURSIVE MkDict(_)
MkDict(kvs) ==
    IF kvs = <<>> THEN EmptyDict
    ELSE Put(MkDict(SubSeq(kvs, 1, Len(kvs) - 1)), kvs[Len(kvs)][1], kvs[Len(kvs)][2])

Range(s) == {s[i] : i \in DOMAIN s}

\* str(x) for the scalar shapes that reach fix_group.
PyStr(x) ==
    CASE x.t = "str" -> x.v
      [] x.t = "none" -> <<"N", "o", "n", "e">>
      [] x.t = "list" -> <<"[", "]">>
      [] OTHER -> <<"{", "}">>

(* ----------------------------- Normalizer ------------------------------ *)

fix_group(name) ==
    [i \in DOMAIN PyStr(name) |->
        IF PyStr(name)[i] \in {"-", "+", "."} THEN "_" ELSE PyStr(name)[i]]

UpperCase == <<"A", "B", "C", "D", "E", "F", "G", "H", "I", "J", "K", "L", "M",
               "N", "O", "P", "Q", "R", "S", "T", "U", "V", "W", "X", "Y", "Z">>
LowerCase == <<"a", "b", "c", "d", "e", "f", "g", "h", "i", "j", "k", "l", "m",
               "n", "o", "p", "q", "r", "s", "t", "u", "v", "w", "x", "y", "z">>
Digits == {"0", "1", "2", "3", "4", "5", "6", "7", "8", "9"}
WordChars == Range(UpperCase) \cup Range(LowerCase) \cup Digits \cup {"_"}

Lower(c) ==
    IF c \in Range(UpperCase)
    THEN LowerCase[CHOOSE i \in DOMAIN UpperCase : UpperCase[i] = c]
    ELSE c

RECURSIVE LStrip(_)
LStrip(s) == IF s # <<>> /\ s[1] = "_" THEN LStrip(Tail(s)) ELSE s

_slugify(value) ==
    <<"d", "o", "g", "_">> \o
    LStrip([i \in DOMAIN value |->
               Lower(IF value[i] \in WordChars \cup {"-"} THEN value[i] ELSE "_")])

(* -------------------------- exceptions --------------------------------- *)

NoErr == [type |-> "none", what |-> "", subject |-> <<>>]
Exc(type, what, subject) == [type |-> type, what |-> what, subject |-> subject]

(* --------------------- the inventory accumulator ----------------------- *)
\* A step result r carries the inventory so far and the exception raised, if
\* any; each operation is skipped once an exception is pending.

EmptyInventory ==
    [groups |-> {}, hosts |-> {}, members |-> {}, children |-> {},
     gvars |-> [g \in {} |-> EmptyDict], hvars |-> [h \in {} |-> EmptyDict]]

Ok(inv) == [inv |-> inv, err |-> NoErr]
Failed(r) == r.err.type # "none"
Raise(r, e) == IF Failed(r) THEN r ELSE [r EXCEPT !.err = e]

add_group(r, group) ==
    IF Failed(r) THEN r
    ELSE IF group = <<>>
    THEN Raise(r, Exc("AnsibleError", "Invalid empty/false group name provided", group))
    ELSE IF group \in r.inv.groups THEN r
    ELSE [r EXCEPT !.inv.groups = @ \cup {group},
                   !.inv.gvars = [g \in r.inv.groups \cup {group} |->
                                     IF g = group THEN EmptyDict ELSE r.inv.gvars[g]]]

\* add_host(host, group): group = <<>> stands for no group (None or "").
add_host(r, host, group) ==
    IF Failed(r) THEN r
    ELSE IF host = <<>>
    THEN Raise(r, Exc("AnsibleError", "Invalid empty host name provided", host))
    ELSE IF group # <<>> /\ group \notin r.inv.groups
    THEN Raise(r, Exc("AnsibleError", "Could not find group in inventory", group))
    ELSE [r EXCEPT !.inv.hosts = @ \cup {host},
                   !.inv.hvars = [h \in r.inv.hosts \cup {host} |->
                                     IF h \in r.inv.hosts THEN r.inv.hvars[h] ELSE EmptyDict],
                   !.inv.members = IF group # <<>> THEN @ \cup {<<group, host>>} ELSE @]

set_variable(r, entity, varname, value) ==
    IF Failed(r) THEN r
    ELSE IF entity \in r.inv.groups
    THEN [r EXCEPT !.inv.gvars[entity] = Put(@, varname, value)]
    ELSE IF entity \in r.inv.hosts
    THEN [r EXCEPT !.inv.hvars[entity] = Put(@, varname, value)]
    ELSE Raise(r, Exc("AnsibleError", "Could not identify group or host", entity))

\* The groups reachable from g along child edges (g included).
RECURSIVE Descendants(_, _, _)
Descendants(edges, frontier, seen) ==
    IF frontier \subseteq seen THEN seen
    ELSE Descendants(edges,
                     {e[2] : e \in {x \in edges : x[1] \in frontier}},
                     seen \cup frontier)

add_child(r, group, child) ==
    IF Failed(r) THEN r
    ELSE IF group \notin r.inv.groups
    THEN Raise(r, Exc("AnsibleError", "is not a known group", group))
    ELSE IF child \in r.inv.groups
    THEN IF child = group
         THEN Raise(r, Exc("Exception", "can't add group to itself", group))
         ELSE IF group \in Descendants(r.inv.children, {child}, {})
         THEN Raise(r, Exc("AnsibleError", "recursive dependency loop", group))
         ELSE [r EXCEPT !.inv.children = @ \cup {<<group, child>>}]
    ELSE IF child \in r.inv.hosts
    THEN [r EXCEPT !.inv.members = @ \cup {<<group, child>>}]
    ELSE Raise(r, Exc("AnsibleError", "is not a known host nor group", child))

(* ------------------------------ names ---------------------------------- *)

K_name == <<"n", "a", "m", "e">>
K_hostkey == <<"h", "o", "s", "t", "k", "e", "y">>
K_id == <<"i", "d">>
K_group == <<"g", "r", "o", "u", "p">>
K_active == <<"a", "c", "t", "i", "v", "e">>
K_version == <<"v", "e", "r", "s", "i", "o", "n">>
K_os_distribution == <<"o", "s", "_">> \o <<"d", "i", "s", "t", "r", "i", "b", "u", "t", "i", "o", "n">>
K_os_version == <<"o", "s", "_">> \o K_version
K_vars == <<"v", "a", "r", "s">>
K_hosts == <<"h", "o", "s", "t", "s">>
K_children == <<"c", "h", "i", "l", "d", "r", "e", "n">>
K_groups == <<"g", "r", "o", "u", "p", "s">>
K_meta == <<"_", "m", "e", "t", "a">>
K_ec2 == <<"e", "c", "2", "_">>
K_ec2_instance_id == K_ec2 \o <<"i", "n", "s", "t", "a", "n", "c", "e", "_", "i", "d">>
K_ec2_region == K_ec2 \o <<"r", "e", "g", "i", "o", "n">>
K_ec2_vpc_id == K_ec2 \o <<"v", "p", "c", "_", "i", "d">>
K_ec2_subnet_id == K_ec2 \o <<"s", "u", "b", "n", "e", "t", "_", "i", "d">>
K_ec2_availability_zone ==
    K_ec2 \o <<"a", "v", "a", "i", "l", "a", "b", "i", "l", "i", "t", "y", "_", "z", "o", "n", "e">>
K_dog_name == <<"d", "o", "g", "_">> \o K_name

P_os == <<"o", "s", "_">>
P_name == K_name \o <<"_">>
P_hostkey == K_hostkey \o <<"_">>
P_id == K_id \o <<"_">>
P_version == K_version \o <<"_">>
P_ec2_instance == K_ec2 \o <<"i", "n", "s", "t", "a", "n", "c", "e", "_">>
P_ec2_region == K_ec2_region \o <<"_">>
P_ec2_availability_zone == K_ec2_availability_zone \o <<"_">>

(* --------------------------- GroupMerger ------------------------------- *)

\* merge with the fact value kept on a scalar conflict.
RECURSIVE merge_factwins(_, _)
merge_factwins(base, nxt) ==
    IF base.t = "list" /\ nxt.t = "list" THEN ListV(base.v \o nxt.v)
    ELSE IF base.t = "dict" /\ nxt.t = "dict"
    THEN LET ks == Keys(base) \o SelectSeq(Keys(nxt), LAMBDA k : ~Has(base, k))
         IN  DictV(ks, [k \in Range(ks) |->
                          IF ~Has(nxt, k) THEN Get(base, k)
                          ELSE IF ~Has(base, k) THEN Get(nxt, k)
                          ELSE merge_factwins(Get(base, k), Get(nxt, k))])
    ELSE base

\* merge with lists united (an element of nxt already in base is dropped).
RECURSIVE merge_unique(_, _)
merge_unique(base, nxt) ==
    IF base.t = "list" /\ nxt.t = "list"
    THEN ListV(base.v \o SelectSeq(nxt.v, LAMBDA x : \A i \in DOMAIN base.v : base.v[i] # x))
    ELSE IF base.t = "dict" /\ nxt.t = "dict"
    THEN LET ks == Keys(base) \o SelectSeq(Keys(nxt), LAMBDA k : ~Has(base, k))
         IN  DictV(ks, [k \in Range(ks) |->
                          IF ~Has(nxt, k) THEN Get(base, k)
                          ELSE IF ~Has(base, k) THEN Get(nxt, k)
                          ELSE merge_unique(Get(base, k), Get(nxt, k))])
    ELSE nxt

\* deepmerge.always_merger.merge(base, nxt): lists are appended, dicts are
\* merged key by key into base, anything else is overridden by nxt.
RECURSIVE merge(_, _)
merge(base, nxt) ==
    IF base.t = "list" /\ nxt.t = "list" THEN ListV(base.v \o nxt.v)
    ELSE IF base.t = "dict" /\ nxt.t = "dict"
    THEN LET ks == Keys(base) \o SelectSeq(Keys(nxt), LAMBDA k : ~Has(base, k))
         IN  DictV(ks, [k \in Range(ks) |->
                          IF ~Has(nxt, k) THEN Get(base, k)
                          ELSE IF ~Has(base, k) THEN Get(nxt, k)
                          ELSE merge(Get(base, k), Get(nxt, k))])
    ELSE nxt

(* ------------------------- group registration -------------------------- *)

RECURSIVE JoinHosts(_, _, _, _)
JoinHosts(r, group, hostnames, i) ==
    IF i > Len(hostnames) THEN r
    ELSE JoinHosts(add_host(r, hostnames[i], group), group, hostnames, i + 1)

RECURSIVE SetGroupVars(_, _, _, _)
SetGroupVars(r, group, vars, i) ==
    IF i > Len(Keys(vars)) THEN r
    ELSE SetGroupVars(set_variable(r, group, Keys(vars)[i], Get(vars, Keys(vars)[i])),
                      group, vars, i + 1)

RECURSIVE AddChildren(_, _, _, _)
AddChildren(r, group, children, i) ==
    IF i > Len(children) THEN r
    ELSE AddChildren(add_child(add_group(r, children[i].v), group, children[i].v),
                     group, children, i + 1)

\* parse_group that ignores a "vars" field which is not a mapping.
parse_group_lenient(r0, group, data) ==
    LET r1 == add_group(r0, group)
        r2 == IF Failed(r1) THEN r1
              ELSE IF ~IsDict(data)
              THEN Raise(r1, Exc("TypeError", "argument of type 'NoneType' is not iterable", group))
              ELSE IF ~Has(data, K_hosts) THEN r1
              ELSE IF ~IsDict(Get(data, K_hosts))
              THEN Raise(r1, Exc("AnsibleError", "bad data for the host list", group))
              ELSE JoinHosts(r1, group, Keys(Get(data, K_hosts)), 1)
        r3 == IF Failed(r2) \/ ~Has(data, K_vars) \/ ~IsDict(Get(data, K_vars)) THEN r2
              ELSE SetGroupVars(r2, group, Get(data, K_vars), 1)
    IN  IF Failed(r3) \/ group = K_meta \/ ~Has(data, K_children) THEN r3
        ELSE AddChildren(r3, group, Get(data, K_children).v, 1)

parse_group(r0, group, data) ==
    LET r1 == add_group(r0, group)
        r2 == IF Failed(r1) THEN r1
              ELSE IF ~IsDict(data)
              THEN Raise(r1, Exc("TypeError", "argument of type 'NoneType' is not iterable", group))
              ELSE IF ~Has(data, K_hosts) THEN r1
              ELSE IF ~IsDict(Get(data, K_hosts))
              THEN Raise(r1, Exc("AnsibleError", "bad data for the host list", group))
              ELSE JoinHosts(r1, group, Keys(Get(data, K_hosts)), 1)
        r3 == IF Failed(r2) \/ ~Has(data, K_vars) THEN r2
              ELSE IF ~IsDict(Get(data, K_vars))
              THEN Raise(r2, Exc("AnsibleError", "bad data for variables", group))
              ELSE SetGroupVars(r2, group, Get(data, K_vars), 1)
    IN  IF Failed(r3) \/ group = K_meta \/ ~Has(data, K_children) THEN r3
        ELSE AddChildren(r3, group, Get(data, K_children).v, 1)

(* ------------------------------ HostFilter ----------------------------- *)

\* self._compose(expression, variables): the expression is a variable
\* reference; an undefined variable raises the undefined-reference error.
Evaluate(expression, variables) ==
    IF Has(variables, expression)
    THEN [ok |-> TRUE, val |-> Get(variables, expression)]
    ELSE [ok |-> FALSE, val |-> NoneV]

\* FilterLoop without the break after a mismatch.
RECURSIVE FilterLoop_nobreak(_, _, _, _)
FilterLoop_nobreak(filters, host, i, evaluated) ==
    IF i > Len(filters) THEN [evaluated |-> evaluated, break_flag |-> FALSE]
    ELSE LET e == Evaluate(filters[i].key, host)
             rest == FilterLoop_nobreak(filters, host, i + 1, Append(evaluated, i))
         IN  IF ~e.ok THEN [evaluated |-> Append(evaluated, i), break_flag |-> FALSE]
             ELSE IF e.val # filters[i].value
             THEN [evaluated |-> rest.evaluated, break_flag |-> TRUE]
             ELSE rest

\* FilterLoop with an evaluation error treated as a mismatch.
RECURSIVE FilterLoop_errexcludes(_, _, _, _)
FilterLoop_errexcludes(filters, host, i, evaluated) ==
    IF i > Len(filters) THEN [evaluated |-> evaluated, break_flag |-> FALSE]
    ELSE LET e == Evaluate(filters[i].key, host)
         IN  IF ~e.ok \/ e.val # filters[i].value
             THEN [evaluated |-> Append(evaluated, i), break_flag |-> TRUE]
             ELSE FilterLoop_errexcludes(filters, host, i + 1, Append(evaluated, i))

\* The filter loop of _populate for one host: the indexes of the predicates
\* evaluated, in order, and break_flag.
RECURSIVE FilterLoop(_, _, _, _)
FilterLoop(filters, host, i, evaluated) ==
    IF i > Len(filters) THEN [evaluated |-> evaluated, break_flag |-> FALSE]
    ELSE LET e == Evaluate(filters[i].key, host)
         IN  IF ~e.ok THEN [evaluated |-> Append(evaluated, i), break_flag |-> FALSE]
             ELSE IF e.val # filters[i].value
             THEN [evaluated |-> Append(evaluated, i), break_flag |-> TRUE]
             ELSE FilterLoop(filters, host, i + 1, Append(evaluated, i))

(* ----------------------------- GraphBuilder ---------------------------- *)

\* The inventory name of a value passed as a host name: None and "" are falsy.
NameOf(x) == IF x.t = "str" THEN x.v ELSE <<>>

\* if x is not None: add_group(prefix + fix_group(x)); add_host(name, that group)
DerivedGroup(r, name, prefix, x) ==
    IF IsNone(x) THEN r
    ELSE add_host(add_group(r, prefix \o fix_group(x)), name, prefix \o fix_group(x))

RECURSIVE HostVars(_, _, _, _)
HostVars(r, name, host_vars, i) ==
    IF i > Len(Keys(host_vars)) THEN r
    ELSE LET key == Keys(host_vars)[i]
             value == Get(host_vars, key)
         IN  HostVars(add_group(set_variable(r, name, key, value),
                                key \o <<"_">> \o fix_group(value)),
                      name, host_vars, i + 1)

\* full_facts: dog_name first, then every remaining field of the record.
RECURSIVE FullFacts(_, _, _)
FullFacts(facts, host, i) ==
    IF i > Len(Keys(host)) THEN facts
    ELSE LET key == Keys(host)[i]
         IN  FullFacts(IF IsNone(Get(host, key)) THEN facts
                       ELSE Put(facts, _slugify(key), Get(host, key)),
                       host, i + 1)

RECURSIVE SetFacts(_, _, _, _)
SetFacts(r, name, full_facts, i) ==
    IF i > Len(Keys(full_facts)) THEN r
    ELSE LET key == Keys(full_facts)[i]
         IN  SetFacts(IF IsNone(Get(full_facts, key)) THEN r
                      ELSE set_variable(r, name, key, Get(full_facts, key)),
                      name, full_facts, i + 1)

\* Constructable._set_composite_vars(compose, variables, host, strict)
RECURSIVE _set_composite_vars(_, _, _, _, _, _)
_set_composite_vars(r, compose, variables, name, strict, i) ==
    IF Failed(r) \/ i > Len(Keys(compose)) THEN r
    ELSE LET varname == Keys(compose)[i]
             e == Evaluate(Get(compose, varname).v, variables)
         IN  _set_composite_vars(
                 IF e.ok THEN set_variable(r, name, varname, e.val)
                 ELSE IF strict
                 THEN Raise(r, Exc("AnsibleError", "Could not set variable for host", varname))
                 ELSE r,
                 compose, variables, name, strict, i + 1)

\* parse_host(host) up to the os group (lines 243-280).
parse_host_os(r0, host, cfg) ==
    LET name == NameOf(Get(host, cfg.unique_id_key))
        os_distribution == Get(host, K_os_distribution)
        os_version == Get(host, K_os_version)
        r1 == add_host(r0, name, <<>>)
    IN  IF Failed(r1) \/ IsNone(os_version) THEN r1
        ELSE IF os_distribution.t # "str"
        THEN Raise(r1, Exc("TypeError", "can only concatenate str to str", name))
        ELSE DerivedGroup(r1, name, P_os \o os_distribution.v \o <<"_">>, os_version)

\* The record after parse_host: host.pop("vars") runs once add_host(name)
\* has succeeded.
parse_host_record(host, cfg) ==
    IF NameOf(Get(host, cfg.unique_id_key)) = <<>> THEN host ELSE Pop(host, K_vars)

\* parse_host(host) with self.groups = groups and the options of cfg.  The
\* options "groups" and "keyed_groups" are at their defaults (no rule).
parse_host(r0, host, groups, cfg) ==
    LET name == NameOf(Get(host, cfg.unique_id_key))
        group == fix_group(Get(host, K_group))
        dog_name == Get(host, K_name)
        host_vars == Get(host, K_vars)
        popped == Pop(host, K_vars)
        r2 == parse_host_os(r0, host, cfg)
        r3 == IF Failed(r2) \/ group = <<>> THEN r2
              ELSE parse_group(r2, group, Get(groups, group))
        r4 == add_host(r3, name, group)
        r5 == IF Failed(r4) \/ IsNone(host_vars) THEN r4
              ELSE HostVars(r4, name, host_vars, 1)
        r6 == DerivedGroup(r5, name, P_name, dog_name)
        r7 == DerivedGroup(r6, name, P_hostkey, Get(host, K_hostkey))
        r8 == DerivedGroup(r7, name, P_id, Get(host, K_id))
        r9 == DerivedGroup(r8, name, P_version, Get(host, K_version))
        r10 == IF ~cfg.add_ec2_groups THEN r9
               ELSE DerivedGroup(
                      DerivedGroup(
                        DerivedGroup(
                          DerivedGroup(
                            DerivedGroup(r9, name, P_ec2_instance, Get(host, K_ec2_instance_id)),
                            name, P_ec2_region, Get(host, K_ec2_region)),
                          name, K_ec2, Get(host, K_ec2_vpc_id)),
                        name, K_ec2, Get(host, K_ec2_subnet_id)),
                      name, P_ec2_availability_zone, Get(host, K_ec2_availability_zone))
        full_facts == FullFacts(MkDict(<<<<K_dog_name, dog_name>>>>), popped, 1)
        r11 == SetFacts(r10, name, full_facts, 1)
    IN  _set_composite_vars(r11, cfg.compose, full_facts, name, cfg.strict, 1)

(* ----------------------- the remote dataset ---------------------------- *)

S(a) == StrV(a)
n_h1 == <<"h", "1">>
n_h2 == <<"h", "2">>
n_h3 == <<"h", "3">>
n_h4 == <<"h", "4">>
n_h9 == <<"h", "9">>
g_w == <<"w">>
g_d == <<"d">>
g_c == <<"c">>
g_w_q == <<"w", "_", "q">>
g_wdq == <<"w", "-", "q">>
g_cdq == <<"c", ".", "q">>
g_ddq == <<"d", ".", "q">>
K_env == <<"e", "n", "v">>
K_tier == <<"t", "i", "e", "r">>
v_active == <<"a", "c", "t", "i", "v", "e">>
v_inactive == <<"i", "n">> \o v_active
v_qa == <<"q", "a">>
v_db == <<"d", "b">>
v_web == <<"w", "e", "b">>
v_bad == <<"b", "a", "d">>

HostUniverse ==
    << MkDict(<< <<K_name, S(n_h1)>>, <<K_hostkey, S(<<"k", ".", "1">>)>>, <<K_id, S(<<"7">>)>>,
                 <<K_group, S(g_wdq)>>, <<K_active, S(v_active)>>,
                 <<K_os_distribution, S(<<"u">>)>>, <<K_os_version, S(<<"2", ".", "4">>)>>,
                 <<K_version, S(<<"1", "+", "b">>)>>, <<K_ec2_region, S(<<"u", "s", "-", "1">>)>>,
                 <<K_env, S(v_qa)>>, <<K_tier, S(v_web)>>,
                 <<K_vars, MkDict(<< <<<<"r">>, S(<<"a", ".", "b">>)>> >>)>> >>),
       MkDict(<< <<K_name, S(n_h2)>>, <<K_hostkey, S(<<"k", "2">>)>>, <<K_group, S(g_w_q)>>,
                 <<K_active, S(v_inactive)>>, <<K_env, S(v_qa)>>, <<K_tier, S(v_db)>> >>),
       MkDict(<< <<K_name, S(n_h3)>>, <<K_hostkey, S(<<"k", "3">>)>>, <<K_group, S(<<>>)>>,
                 <<K_active, S(v_active)>>, <<K_tier, S(v_db)>>,
                 <<K_vars, MkDict(<< <<<<"r">>, S(<<"z">>)>> >>)>> >>),
       MkDict(<< <<K_name, S(n_h4)>>, <<K_active, S(v_active)>>, <<K_env, S(v_db)>> >>) >>

LiveGroupUniverse ==
    << MkDict(<< <<K_name, S(g_wdq)>>,
                 <<K_hosts, MkDict(<< <<n_h2, EmptyDict>> >>)>>,
                 <<K_vars, MkDict(<< <<<<"v">>, S(<<"l">>)>> >>)>>,
                 <<K_children, ListV(<<S(g_d)>>)>> >>),
       MkDict(<< <<K_name, S(g_w_q)>>,
                 <<K_vars, MkDict(<< <<<<"v">>, S(<<"m">>)>>, <<<<"u">>, S(<<"l">>)>> >>)>> >>),
       MkDict(<< <<K_name, S(g_w)>>, <<K_children, ListV(<<S(g_d), S(g_wdq)>>)>> >>),
       MkDict(<< <<K_name, S(g_d)>>, <<K_vars, S(v_bad)>> >>),
       MkDict(<< <<K_name, S(g_ddq)>>, <<K_hosts, S(v_bad)>> >>) >>

\* <<name, record>> entries of the fact document's "groups" mapping.
FactGroupUniverse ==
    << <<g_w_q, MkDict(<< <<K_hosts, MkDict(<< <<n_h1, MkDict(<< <<<<"p">>, S(<<"1">>)>> >>)>>,
                                               <<n_h9, EmptyDict>> >>)>>,
                          <<K_vars, MkDict(<< <<<<"v">>, S(<<"f">>)>>, <<<<"f">>, S(<<"f">>)>> >>)>>,
                          <<K_children, ListV(<<S(g_d), S(g_c)>>)>> >>)>>,
       <<g_cdq, MkDict(<< <<K_hosts, MkDict(<< <<n_h3, EmptyDict>> >>)>>,
                          <<K_vars, MkDict(<< <<<<"v">>, S(<<"f">>)>> >>)>> >>)>>,
       <<g_d, MkDict(<< <<K_hosts, EmptyDict>>,
                        <<K_vars, MkDict(<< <<<<"v">>, S(<<"f">>)>> >>)>> >>)>>,
       <<g_c, MkDict(<< <<K_vars, MkDict(<< <<<<"v">>, S(<<"f">>)>> >>)>> >>)>> >>

FilterUniverse ==
    << [key |-> K_env, value |-> S(v_qa)],
       [key |-> K_tier, value |-> S(v_web)],
       [key |-> K_env, value |-> S(v_db)] >>

\* The elements of u at the indexes of idx, in the order of u.
RECURSIVE Pick(_, _, _)
Pick(u, idx, i) ==
    IF i > Len(u) THEN <<>>
    ELSE (IF i \in idx THEN <<u[i]>> ELSE <<>>) \o Pick(u, idx, i + 1)

group_suffix_qa == <<"_", "q">>
c_compose == MkDict(<< <<<<"c">>, S(_slugify(K_env))>> >>)

\* The constructed-feature options of a run: none, lenient, strict.
OptionUniverse ==
    { [strict |-> FALSE, unique_id_key |-> K_name, add_ec2_groups |-> FALSE, compose |-> EmptyDict],
      [strict |-> FALSE, unique_id_key |-> K_name, add_ec2_groups |-> TRUE, compose |-> c_compose],
      [strict |-> TRUE, unique_id_key |-> K_hostkey, add_ec2_groups |-> TRUE, compose |-> c_compose] }

\* The outcomes of get_fact_by_name when the document lists no group.
NotFound == S(<<"4", "0", "4">>)
EmptyFacts == {NotFound, EmptyDict, MkDict(<< <<K_groups, EmptyDict>> >>)}

(* ----------------------------- the run --------------------------------- *)

VARIABLES config, remote, pc, hosts, dog_groups, fact, fact_groups, groups,
          gi, hi, inventory, exc, error, evaluated, excluded, parsed, registered,
          run, first

vars == <<config, remote, pc, hosts, dog_groups, fact, fact_groups, groups,
          gi, hi, inventory, exc, error, evaluated, excluded, parsed, registered,
          run, first>>

Init ==
    /\ \E hs \in SUBSET DOMAIN HostUniverse, ls \in SUBSET DOMAIN LiveGroupUniverse,
          fs \in SUBSET DOMAIN FactGroupUniverse, ps \in SUBSET DOMAIN FilterUniverse :
          /\ Cardinality(hs) + Cardinality(ls) + Cardinality(fs) + Cardinality(ps) <= MaxItems
          /\ \E f \in (IF fs = {} THEN EmptyFacts
                       ELSE {MkDict(<< <<K_groups, MkDict(Pick(FactGroupUniverse, fs, 1))>> >>)}) :
                remote = [hosts |-> Pick(HostUniverse, hs, 1),
                          groups |-> Pick(LiveGroupUniverse, ls, 1),
                          fact |-> f]
          /\ \E o \in OptionUniverse, a \in BOOLEAN, sfx \in {NoneV, S(group_suffix_qa)} :
                config = [only_include_active |-> a, group_suffix |-> sfx,
                          filters |-> Pick(FilterUniverse, ps, 1),
                          strict |-> o.strict, unique_id_key |-> o.unique_id_key,
                          add_ec2_groups |-> o.add_ec2_groups, compose |-> o.compose]
    /\ pc = "hosts"
    /\ hosts = <<>>
    /\ dog_groups = EmptyDict
    /\ fact = NoneV
    /\ fact_groups = EmptyDict
    /\ groups = EmptyDict
    /\ gi = 1
    /\ hi = 1
    /\ inventory = EmptyInventory
    /\ exc = NoErr
    /\ error = [type |-> "none", what |-> "", cause |-> NoErr]
    /\ evaluated = <<>>
    /\ excluded = {}
    /\ parsed = {}
    /\ registered = <<>>
    /\ run = 1
    /\ first = EmptyInventory

\* _populate, lines 168-181: the options and the host list.
FetchHosts ==
    /\ pc = "hosts"
    /\ \E ok \in BOOLEAN :
         IF ok
         THEN /\ hosts' = IF config.only_include_active
                          THEN SelectSeq(remote.hosts, LAMBDA h : Get(h, K_active) = S(v_active))
                          ELSE remote.hosts
              /\ pc' = "groups"
              /\ exc' = exc
         ELSE /\ hosts' = hosts
              /\ pc' = "raise"
              /\ exc' = Exc("AnsibleError", "Error listing containers", <<>>)
    /\ UNCHANGED <<config, remote, run, first, dog_groups, fact, fact_groups, groups, gi, hi,
                   inventory, error, evaluated, excluded, parsed, registered>>

\* dog_groups[fix_group(group.get("name"))] = group, in list order.
RECURSIVE IndexGroups(_, _, _)
IndexGroups(acc, dog_groups_list, i) ==
    IF i > Len(dog_groups_list) THEN acc
    ELSE IndexGroups(Put(acc, fix_group(Get(dog_groups_list[i], K_name)), dog_groups_list[i]),
                     dog_groups_list, i + 1)

\* _populate, lines 183-190.
FetchGroups ==
    /\ pc = "groups"
    /\ \E ok \in BOOLEAN :
         IF ok
         THEN /\ dog_groups' = IndexGroups(EmptyDict, remote.groups, 1)
              /\ pc' = "fact"
              /\ exc' = exc
         ELSE /\ dog_groups' = dog_groups
              /\ pc' = "raise"
              /\ exc' = Exc("AnsibleError", "Error listing groups", <<>>)
    /\ UNCHANGED <<config, remote, run, first, hosts, fact, fact_groups, groups, gi, hi,
                   inventory, error, evaluated, excluded, parsed, registered>>

\* group_host in hosts: the key is compared with the elements of the list.
InList(x, list) == \E i \in DOMAIN list : list[i] = x

\* new_group_hosts of lines 200-203.
RECURSIVE FilterFactHosts(_, _, _, _)
FilterFactHosts(acc, group_hosts, fetched, i) ==
    IF i > Len(Keys(group_hosts)) THEN acc
    ELSE LET group_host == Keys(group_hosts)[i]
         IN  FilterFactHosts(IF InList(S(group_host), fetched)
                             THEN Put(acc, group_host, Get(group_hosts, group_host))
                             ELSE acc,
                             group_hosts, fetched, i + 1)

\* The loop of lines 196-205 over fact["groups"]: b carries fact_groups, the
\* fact document (its group records are updated in place) and the exception.
RECURSIVE BuildFactGroups(_, _, _)
BuildFactGroups(b, fetched, i) ==
    LET fact_groups_dict == Get(b.fact, K_groups)
    IN  IF b.err.type # "none" \/ i > Len(Keys(fact_groups_dict)) THEN b
        ELSE LET raw == Keys(fact_groups_dict)[i]
                 group == Get(fact_groups_dict, raw)
                 group_hosts == Get(group, K_hosts)
             IN  IF ~IsDict(group_hosts)
                 THEN [b EXCEPT !.err = Exc("AttributeError", "object has no attribute 'items'", raw)]
                 ELSE LET new_group == Put(group, K_hosts,
                                           FilterFactHosts(EmptyDict, group_hosts, fetched, 1))
                      IN  BuildFactGroups(
                              [fact_groups |-> Put(b.fact_groups, fix_group(S(raw)), new_group),
                               fact |-> Put(b.fact, K_groups, Put(fact_groups_dict, raw, new_group)),
                               err |-> NoErr],
                              fetched, i + 1)

\* FetchFact with a missing fact document treated as fatal.
FetchFact_fatal ==
    /\ pc = "fact"
    /\ IF remote.fact = NotFound \/ ~IsDict(Get(remote.fact, K_groups))
       THEN /\ fact' = fact
            /\ pc' = "raise"
            /\ exc' = Exc("ClientError", "fact not found", <<>>)
            /\ UNCHANGED <<fact_groups, groups>>
       ELSE LET b == BuildFactGroups([fact_groups |-> EmptyDict, fact |-> remote.fact,
                                      err |-> NoErr], hosts, 1)
            IN  /\ fact' = b.fact
                /\ fact_groups' = b.fact_groups
                /\ exc' = b.err
                /\ pc' = IF b.err.type # "none" THEN "raise" ELSE "merge"
                /\ UNCHANGED groups
    /\ UNCHANGED <<config, remote, run, first, hosts, dog_groups, gi, hi, inventory, error,
                   evaluated, excluded, parsed, registered>>

\* _populate, lines 192-205 and 207-209: the fact document is fetched and
\* fact_groups built; on ClientError the live groups are used alone.
FetchFact ==
    /\ pc = "fact"
    /\ IF remote.fact = NotFound
       THEN /\ groups' = dog_groups
            /\ pc' = "register"
            /\ UNCHANGED <<fact, fact_groups, exc>>
       ELSE IF ~IsDict(Get(remote.fact, K_groups))
       THEN /\ fact' = remote.fact
            /\ pc' = "raise"
            /\ exc' = Exc("AttributeError", "'NoneType' object has no attribute 'items'", <<>>)
            /\ UNCHANGED <<fact_groups, groups>>
       ELSE LET b == BuildFactGroups([fact_groups |-> EmptyDict, fact |-> remote.fact,
                                      err |-> NoErr], hosts, 1)
            IN  /\ fact' = b.fact
                /\ fact_groups' = b.fact_groups
                /\ exc' = b.err
                /\ pc' = IF b.err.type # "none" THEN "raise" ELSE "merge"
                /\ UNCHANGED groups
    /\ UNCHANGED <<config, remote, run, first, hosts, dog_groups, gi, hi, inventory, error,
                   evaluated, excluded, parsed, registered>>

\* The fact document after the merge: the record bound to a normalized name
\* in fact_groups is the one merged in place.
RECURSIVE WriteBack(_, _, _)
WriteBack(doc, merged, i) ==
    LET fact_groups_dict == Get(doc, K_groups)
    IN  IF i > Len(Keys(fact_groups_dict)) THEN doc
        ELSE LET raw == Keys(fact_groups_dict)[i]
                 last == \A j \in (i + 1)..Len(Keys(fact_groups_dict)) :
                             fix_group(S(Keys(fact_groups_dict)[j])) # fix_group(S(raw))
             IN  WriteBack(IF last
                           THEN Put(doc, K_groups,
                                    Put(fact_groups_dict, raw, Get(merged, fix_group(S(raw)))))
                           ELSE doc,
                           merged, i + 1)

\* _populate, line 206.
Merge ==
    /\ pc = "merge"
    /\ groups' = merge(fact_groups, dog_groups)
    /\ fact_groups' = groups'
    /\ fact' = WriteBack(fact, groups', 1)
    /\ pc' = "register"
    /\ UNCHANGED <<config, remote, run, first, hosts, dog_groups, gi, hi, inventory, exc, error,
                   evaluated, excluded, parsed, registered>>

\* re.fullmatch(r'.*' + suffix + '$', name) for a suffix without regular
\* expression metacharacters: name ends with suffix.
EndsWith(name, suffix) ==
    /\ Len(suffix) <= Len(name)
    /\ SubSeq(name, Len(name) - Len(suffix) + 1, Len(name)) = suffix

\* re.sub(suffix + '$', '', name) for a name that ends with suffix.
StripSuffix(name, suffix) == SubSeq(name, 1, Len(name) - Len(suffix))

\* The loop body without the synthetic parent group.
RegisterBody_noparent(inv, group_name, group, group_suffix) ==
    IF group_suffix.t # "str"
    THEN [r |-> Raise(Ok(inv), Exc("TypeError", "can only concatenate str to str", group_name)),
          calls |-> <<>>]
    ELSE [r |-> parse_group(Ok(inv), group_name, group), calls |-> << <<group_name, group>> >>]

\* The body of the loop of lines 211-220 for one merged group: the result
\* and the parse_group calls made.
RegisterBody(inv, group_name, group, group_suffix) ==
    IF group_suffix.t # "str"
    THEN [r |-> Raise(Ok(inv), Exc("TypeError", "can only concatenate str to str", group_name)),
          calls |-> <<>>]
    ELSE IF EndsWith(group_name, group_suffix.v)
    THEN LET group_group_name == StripSuffix(group_name, group_suffix.v)
             group_group == MkDict(<< <<K_name, S(group_group_name)>>,
                                      <<K_children, ListV(<<S(group_name)>>)>> >>)
             rp == parse_group(Ok(inv), group_group_name, group_group)
         IN  IF Failed(rp) THEN [r |-> rp, calls |-> << <<group_group_name, group_group>> >>]
             ELSE [r |-> parse_group(rp, group_name, group),
                   calls |-> << <<group_group_name, group_group>>, <<group_name, group>> >>]
    ELSE [r |-> parse_group(Ok(inv), group_name, group), calls |-> << <<group_name, group>> >>]

\* _populate, lines 211-220: one iteration of the loop over self.groups.
RegisterGroup ==
    /\ pc = "register"
    /\ gi <= Len(Keys(groups))
    /\ LET group_name == Keys(groups)[gi]
           b == RegisterBody(inventory, group_name, Get(groups, group_name), config.group_suffix)
       IN  /\ inventory' = b.r.inv
           /\ registered' = registered \o b.calls
           /\ exc' = b.r.err
           /\ pc' = IF Failed(b.r) THEN "raise" ELSE "register"
           /\ gi' = gi + 1
    /\ UNCHANGED <<config, remote, run, first, hosts, dog_groups, fact, fact_groups, groups, hi,
                   error, evaluated, excluded, parsed>>

\* _populate, lines 222-240: one iteration of the loop over hosts.
ProcessHost ==
    /\ pc = "register"
    /\ gi > Len(Keys(groups))
    /\ hi <= Len(hosts)
    /\ LET host == hosts[hi]
           f == FilterLoop(config.filters, host, 1, <<>>)
           r == parse_host(Ok(inventory), host, groups, config)
           pre == parse_host_os(Ok(inventory), host, config)
           group == fix_group(Get(host, K_group))
       IN  /\ evaluated' = Append(evaluated, f.evaluated)
           /\ IF f.break_flag
              THEN /\ excluded' = excluded \cup {hi}
                   /\ pc' = pc
                   /\ UNCHANGED <<hosts, inventory, exc, parsed, registered>>
              ELSE /\ parsed' = parsed \cup {hi}
                   /\ hosts' = [hosts EXCEPT ![hi] = parse_host_record(host, config)]
                   /\ inventory' = r.inv
                   /\ registered' = IF ~Failed(pre) /\ group # <<>>
                                    THEN Append(registered, <<group, Get(groups, group)>>)
                                    ELSE registered
                   /\ exc' = r.err
                   /\ pc' = IF Failed(r) THEN "raise" ELSE pc
                   /\ UNCHANGED excluded
           /\ hi' = hi + 1
    /\ UNCHANGED <<config, remote, run, first, dog_groups, fact, fact_groups, groups, gi, error>>

\* _populate returns; parse returns.
Return ==
    /\ pc = "register"
    /\ gi > Len(Keys(groups))
    /\ hi > Len(hosts)
    /\ pc' = "done"
    /\ UNCHANGED <<config, remote, run, first, hosts, dog_groups, fact, fact_groups, groups, gi, hi,
                   inventory, exc, error, evaluated, excluded, parsed, registered>>

\* parse, lines 439-441: the exception is wrapped and raised again.
Wrapped(e) == [type |-> "AnsibleError", what |-> "An unexpected dog error occurred", cause |-> e]

\* The handler with the original exception passed on unwrapped.
ParseExcept_unwrapped ==
    /\ pc = "raise"
    /\ error' = [type |-> exc.type, what |-> exc.what, cause |-> NoErr]
    /\ pc' = "failed"
    /\ UNCHANGED <<config, remote, run, first, hosts, dog_groups, fact, fact_groups, groups, gi, hi,
                   inventory, exc, evaluated, excluded, parsed, registered>>

ParseExcept ==
    /\ pc = "raise"
    /\ error' = Wrapped(exc)
    /\ pc' = "failed"
    /\ UNCHANGED <<config, remote, run, first, hosts, dog_groups, fact, fact_groups, groups, gi, hi,
                   inventory, exc, evaluated, excluded, parsed, registered>>

Next ==
    \/ FetchHosts
    \/ FetchGroups
    \/ FetchFact
    \/ Merge
    \/ RegisterGroup
    \/ ProcessHost
    \/ Return
    \/ ParseExcept

Spec == Init /\ [][Next]_vars

\* A second run of parse, on a fresh inventory, with a client that hands out
\* the record objects of the first run again: the host records as parse_host
\* left them, the live group records, and the fact document as the fact loop
\* and the merge left it.  first keeps the graph of the first run.
Rerun ==
    /\ pc = "done"
    /\ run = 1
    /\ run' = 2
    /\ first' = inventory
    /\ remote' = [hosts |-> hosts, groups |-> remote.groups,
                  fact |-> IF IsDict(fact) THEN fact ELSE remote.fact]
    /\ pc' = "hosts"
    /\ hosts' = <<>>
    /\ dog_groups' = EmptyDict
    /\ fact' = NoneV
    /\ fact_groups' = EmptyDict
    /\ groups' = EmptyDict
    /\ gi' = 1
    /\ hi' = 1
    /\ inventory' = EmptyInventory
    /\ exc' = NoErr
    /\ error' = [type |-> "none", what |-> "", cause |-> NoErr]
    /\ evaluated' = <<>>
    /\ excluded' = {}
    /\ parsed' = {}
    /\ registered' = <<>>
    /\ UNCHANGED config

NextTwice ==
    \/ Next
    \/ Rerun

SpecTwice == Init /\ [][NextTwice]_vars

(* =============================== claims ================================ *)

\* The host list as fetched (before parse_host removes "vars").
Fetched ==
    IF config.only_include_active
    THEN SelectSeq(remote.hosts, LAMBDA h : Get(h, K_active) = S(v_active))
    ELSE remote.hosts

\* The outcome of predicate i on a record, read off the record directly.
Undefined(h, i) == ~Has(h, config.filters[i].key)
Matches(h, i) == Has(h, config.filters[i].key) /\ h.v.m[config.filters[i].key] = config.filters[i].value
Mismatches(h, i) == Has(h, config.filters[i].key) /\ h.v.m[config.filters[i].key] # config.filters[i].value
UpTo(i) == [k \in 1..i |-> k]

\* C1: if predicate i is the first whose value differs from the expected one
\* (all earlier predicates evaluated and matched), exactly predicates 1..i
\* were evaluated for the host, in order, and parse_host was not invoked.
C1_MismatchExcludes ==
    \A j \in DOMAIN evaluated : \A i \in DOMAIN config.filters :
        ((\A k \in 1..(i - 1) : Matches(Fetched[j], k)) /\ Mismatches(Fetched[j], i))
        => /\ evaluated[j] = UpTo(i)
           /\ j \in excluded
           /\ j \notin parsed
           /\ hosts[j] = Fetched[j]

C1_Witness ==
    \E j \in DOMAIN evaluated :
        /\ Len(config.filters) = 3
        /\ Matches(Fetched[j], 1)
        /\ Mismatches(Fetched[j], 2)
        /\ evaluated[j] = <<1, 2>>
        /\ j \in excluded

\* C2: if evaluating predicate i raises the undefined-reference error (all
\* earlier predicates matched), exactly predicates 1..i were evaluated, the
\* host is not excluded and parse_host is invoked for it.
C2_ErrorRetains ==
    \A j \in DOMAIN evaluated : \A i \in DOMAIN config.filters :
        ((\A k \in 1..(i - 1) : Matches(Fetched[j], k)) /\ Undefined(Fetched[j], i))
        => /\ evaluated[j] = UpTo(i)
           /\ j \notin excluded
           /\ j \in parsed

\* A retained host whose first predicate is undefined and whose second would
\* have mismatched; its parse_host succeeded.
C2_Witness ==
    \E j \in DOMAIN evaluated :
        /\ Len(config.filters) >= 2
        /\ Undefined(Fetched[j], 1)
        /\ Mismatches(Fetched[j], 2)
        /\ j \in parsed
        /\ pc = "done"
        /\ NameOf(Get(Fetched[j], config.unique_id_key)) \in inventory.hosts

\* The graph identifiers of the hosts that passed HostFilter.
AdmittedIds == {NameOf(Get(Fetched[j], config.unique_id_key)) : j \in parsed}

\* C3: after a successful run every host of the graph, and every member of
\* every group, is a fetched host that HostFilter did not exclude.
C3_OnlyAdmittedHosts ==
    pc = "done" =>
        /\ inventory.hosts \subseteq AdmittedIds
        /\ \A e \in inventory.members : e[2] \in AdmittedIds

MergeStep == pc = "merge" /\ pc' = "register"
InBoth(g) == Has(fact_groups, g) /\ Has(dog_groups, g)
Field(rec, k) == IF IsDict(rec) THEN Get(rec, k) ELSE NoneV
\* The value a record gives to variable k: defined when "vars" is a mapping
\* holding k.
VarDefined(rec, k) == IsDict(Field(rec, K_vars)) /\ Has(Field(rec, K_vars), k)
VarValue(rec, k) == Get(Field(rec, K_vars), k)
VarKeys(rec) == IF IsDict(Field(rec, K_vars)) THEN Range(Keys(Field(rec, K_vars))) ELSE {}
WellFormedVars(rec) == ~Has(rec, K_vars) \/ IsDict(Get(rec, K_vars))
Scalar(x) == x.t \in {"str", "none"}

\* C4: at the merge, for a group present in the fact-derived and in the live
\* map (the "vars" of both being mappings or absent), a variable to which
\* both give a scalar holds the live value; a variable defined on one side
\* only keeps that side's value.
C4_LiveWinsScalars ==
    [][MergeStep =>
        \A g \in Range(Keys(fact_groups)) :
            LET f == Get(fact_groups, g)
                l == Get(dog_groups, g)
                m == Get(groups', g)
            IN  (InBoth(g) /\ WellFormedVars(f) /\ WellFormedVars(l)) =>
                    \A k \in VarKeys(f) \cup VarKeys(l) :
                        /\ VarDefined(m, k)
                        /\ (VarDefined(f, k) /\ VarDefined(l, k)
                            /\ Scalar(VarValue(f, k)) /\ Scalar(VarValue(l, k)))
                           => VarValue(m, k) = VarValue(l, k)
                        /\ (VarDefined(f, k) /\ ~VarDefined(l, k))
                           => VarValue(m, k) = VarValue(f, k)
                        /\ (~VarDefined(f, k) /\ VarDefined(l, k))
                           => VarValue(m, k) = VarValue(l, k)]_vars

\* A merged group with a conflicting scalar, a fact-only and a live-only key.
C4_Witness ==
    /\ pc = "register"
    /\ IsDict(fact)
    /\ \E g \in Range(Keys(groups)) :
         LET l == Get(dog_groups, g)
             m == Get(groups, g)
         IN  /\ Has(dog_groups, g)
             /\ \E k \in VarKeys(l) : VarValue(m, k) = VarValue(l, k)
                                       /\ VarValue(l, k) = S(<<"m">>)
             /\ \E k \in VarKeys(m) : ~VarDefined(l, k)
             /\ \E k \in VarKeys(l) : VarValue(l, k) = S(<<"l">>) /\ k = <<"u">>
             /\ Cardinality(VarKeys(m)) = 3

HasList(rec, k) == IsDict(rec) /\ Has(rec, k) /\ Get(rec, k).t = "list"

\* The elements of a list in order of first occurrence.
RECURSIVE Dedup(_)
Dedup(s) ==
    IF s = <<>> THEN <<>>
    ELSE LET d == Dedup(SubSeq(s, 1, Len(s) - 1))
         IN  IF s[Len(s)] \in Range(d) THEN d ELSE Append(d, s[Len(s)])

\* C5 as stated: at the merge, for a group of both maps with differing
\* "children" lists, the merged list is their union, order-stable and
\* without duplicates.
C5_ChildrenSetUnion ==
    [][MergeStep =>
        \A g \in Range(Keys(fact_groups)) :
            LET f == Get(fact_groups, g)
                l == Get(dog_groups, g)
            IN  (InBoth(g) /\ HasList(f, K_children) /\ HasList(l, K_children)
                 /\ Get(f, K_children) # Get(l, K_children))
                => Get(Get(groups', g), K_children).v
                       = Dedup(Get(f, K_children).v \o Get(l, K_children).v)]_vars

\* C5 amended: at the merge, for a group of both maps with differing
\* "children" lists, the merged list is the fact list followed by the live
\* list, duplicates kept.
C5_ChildrenConcatenated ==
    [][MergeStep =>
        \A g \in Range(Keys(fact_groups)) :
            LET f == Get(fact_groups, g)
                l == Get(dog_groups, g)
            IN  (InBoth(g) /\ HasList(f, K_children) /\ HasList(l, K_children)
                 /\ Get(f, K_children) # Get(l, K_children))
                => Get(Get(groups', g), K_children).v
                       = Get(f, K_children).v \o Get(l, K_children).v]_vars

\* After the merge, a group of both maps lists a child twice.
C5_Witness ==
    /\ pc = "register"
    /\ IsDict(fact)
    /\ \E g \in Range(Keys(groups)) :
         /\ HasList(Get(dog_groups, g), K_children)
         /\ HasList(Get(groups, g), K_children)
         /\ Len(Get(Get(groups, g), K_children).v) > Len(Get(Get(dog_groups, g), K_children).v)
         /\ Dedup(Get(Get(groups, g), K_children).v) # Get(Get(groups, g), K_children).v

FetchedNames == {Get(Fetched[j], K_name).v : j \in DOMAIN Fetched}

\* C6: before the merge, the "hosts" of each fact group are exactly the
\* entries of the fetched document whose hostname is the name of a fetched
\* live host, each with its payload.
C6_FactHostsRestricted ==
    pc = "merge" =>
        \A raw \in Range(Keys(Get(remote.fact, K_groups))) :
            LET orig == Get(Get(Get(remote.fact, K_groups), raw), K_hosts)
                kept == Get(Get(fact_groups, fix_group(S(raw))), K_hosts)
            IN  /\ Range(Keys(kept)) = {h \in Range(Keys(orig)) : h \in FetchedNames}
                /\ \A h \in Range(Keys(kept)) : Get(kept, h) = Get(orig, h)

SuffixOn == config.group_suffix.t = "str"
ChildrenOf(p) == {e[2] : e \in {x \in inventory.children : x[1] = p}}
MembersOf(g) == {e[2] : e \in {x \in inventory.members : x[1] = g}}
RecordChildren(rec) ==
    IF HasList(rec, K_children) THEN {c.v : c \in Range(Get(rec, K_children).v)} ELSE {}
RecordHosts(rec) ==
    IF IsDict(Field(rec, K_hosts)) THEN Range(Keys(Field(rec, K_hosts))) ELSE {}
Synthetic(g) ==
    MkDict(<< <<K_name, S(StripSuffix(g, config.group_suffix.v))>>,
              <<K_children, ListV(<<S(g)>>)>> >>)

\* The group is in the graph with the hosts and the variables of its record.
Retains(g) ==
    /\ g \in inventory.groups
    /\ RecordHosts(Get(groups, g)) \subseteq MembersOf(g)
    /\ g \notin inventory.hosts =>
          \A k \in VarKeys(Get(groups, g)) :
              Get(inventory.gvars[g], k) = VarValue(Get(groups, g), k)

\* Every registration from a record other than the merged one is that of the
\* synthetic parent of a merged group ending with the suffix.
OnlySuffixedGetParents ==
    \A i \in DOMAIN registered :
        registered[i][2] # Get(groups, registered[i][1]) =>
            /\ Has(groups, registered[i][1] \o config.group_suffix.v)
            /\ registered[i][2] = Synthetic(registered[i][1] \o config.group_suffix.v)

\* C7 as stated: after a successful run with a suffix, each merged group
\* ending with it has its stripped name in the graph with the group as the
\* only child, and keeps its hosts and vars; no other group gets a parent.
C7_SuffixParentOnlyChild ==
    (pc = "done" /\ SuffixOn) =>
        /\ \A g \in Range(Keys(groups)) :
              EndsWith(g, config.group_suffix.v) =>
                  /\ StripSuffix(g, config.group_suffix.v) \in inventory.groups
                  /\ ChildrenOf(StripSuffix(g, config.group_suffix.v)) = {g}
                  /\ Retains(g)
        /\ OnlySuffixedGetParents

\* C7 amended: the children of the stripped name are the group and the
\* children listed by the merged record of the stripped name, if any.
C7_SuffixParent ==
    (pc = "done" /\ SuffixOn) =>
        /\ \A g \in Range(Keys(groups)) :
              EndsWith(g, config.group_suffix.v) =>
                  /\ StripSuffix(g, config.group_suffix.v) \in inventory.groups
                  /\ ChildrenOf(StripSuffix(g, config.group_suffix.v))
                         = {g} \cup RecordChildren(Get(groups, StripSuffix(g, config.group_suffix.v)))
                  /\ Retains(g)
        /\ OnlySuffixedGetParents

\* A successful run where the stripped name is itself a merged group with a
\* child of its own, next to a suffixed group with hosts and vars.
C7_Witness ==
    /\ pc = "done"
    /\ SuffixOn
    /\ \E g \in Range(Keys(groups)) :
         /\ EndsWith(g, config.group_suffix.v)
         /\ Has(groups, StripSuffix(g, config.group_suffix.v))
         /\ g \in ChildrenOf(StripSuffix(g, config.group_suffix.v))
         /\ ChildrenOf(StripSuffix(g, config.group_suffix.v)) # {g}
         /\ VarKeys(Get(groups, g)) # {}
    /\ \E g \in Range(Keys(groups)) : ~EndsWith(g, config.group_suffix.v)

\* The graph built from a group map and the fetched hosts.
RECURSIVE RunGroups(_, _, _)
RunGroups(r, gmap, i) ==
    IF Failed(r) \/ i > Len(Keys(gmap)) THEN r
    ELSE RunGroups(RegisterBody(r.inv, Keys(gmap)[i], Get(gmap, Keys(gmap)[i]),
                                config.group_suffix).r, gmap, i + 1)

RECURSIVE RunHosts(_, _, _)
RunHosts(r, gmap, j) ==
    IF Failed(r) \/ j > Len(Fetched) THEN r
    ELSE RunHosts(IF FilterLoop(config.filters, Fetched[j], 1, <<>>).break_flag THEN r
                  ELSE parse_host(r, Fetched[j], gmap, config),
                  gmap, j + 1)

GraphFrom(gmap) == RunHosts(RunGroups(Ok(EmptyInventory), gmap, 1), gmap, 1)

\* The live records keyed by normalized name, the later record of a name
\* winning.
IsLiveMap(gmap) ==
    /\ \A i \in DOMAIN remote.groups : Has(gmap, fix_group(Get(remote.groups[i], K_name)))
    /\ \A k \in Range(Keys(gmap)) :
          \E i \in DOMAIN remote.groups :
              /\ fix_group(Get(remote.groups[i], K_name)) = k
              /\ Get(gmap, k) = remote.groups[i]
              /\ \A j \in (i + 1)..Len(remote.groups) :
                    fix_group(Get(remote.groups[j], K_name)) # k

\* C8: when the fact document is not found the fetch step does not abort the
\* run, the group map is the live map keyed by normalized name, and a
\* successful run ends with the graph built from the live groups alone.
C8_FactNotFoundSoft ==
    /\ [][(pc = "fact" /\ remote.fact = NotFound) =>
            (pc' = "register" /\ exc' = NoErr /\ groups' = dog_groups)]_vars
    /\ []((remote.fact = NotFound /\ pc \in {"register", "done"}) => IsLiveMap(groups))
    /\ []((remote.fact = NotFound /\ pc = "done")
          => (inventory = GraphFrom(IndexGroups(EmptyDict, remote.groups, 1)).inv))

C8_Witness ==
    /\ remote.fact = NotFound
    /\ pc = "done"
    /\ Len(remote.groups) >= 2
    /\ Cardinality(inventory.groups) >= 3
    /\ inventory.hosts # {}

Malformed(rec) ==
    /\ IsDict(rec)
    /\ \/ Has(rec, K_hosts) /\ ~IsDict(Get(rec, K_hosts))
       \/ Has(rec, K_vars) /\ ~IsDict(Get(rec, K_vars))

\* C9: a group registration on a record whose "hosts" or "vars" is present
\* but not a mapping is the last one of the run: the run aborts with an error
\* naming the group, processes no host afterwards and never completes.
C9_MalformedGroupFatal ==
    /\ [](\A i \in DOMAIN registered :
            Malformed(registered[i][2]) =>
                /\ i = Len(registered)
                /\ pc \in {"raise", "failed"}
                /\ exc.type = "AnsibleError"
                /\ exc.subject = registered[i][1]
                /\ pc = "failed" => error.cause = exc)
    /\ [][(pc \in {"raise", "failed"}) =>
            (pc' \in {"raise", "failed"} /\ parsed' = parsed /\ hi' = hi /\ registered' = registered)]_vars

\* A failed run whose last registration, after an earlier good one, was of a
\* record with a malformed "vars".
C9_Witness ==
    /\ pc = "failed"
    /\ Len(registered) >= 2
    /\ Malformed(registered[Len(registered)][2])
    /\ Has(registered[Len(registered)][2], K_vars)
    /\ error.cause.subject = registered[Len(registered)][1]

\* C10 as stated: a failed run ends with one wrapped error and a graph that
\* holds nothing added by the run.
C10_NoPartialGraph ==
    pc = "failed" => (error = Wrapped(exc) /\ inventory = EmptyInventory)

\* C10 amended: a failure is raised again as one wrapped reconciliation
\* error carrying the original failure, and the graph is left as it was when
\* the failure occurred (nothing is rolled back).
C10_WrappedNoRollback ==
    /\ [](pc = "failed" => (/\ error.type = "AnsibleError"
                            /\ error.what = "An unexpected dog error occurred"
                            /\ error.cause = exc
                            /\ exc.type # "none"))
    /\ [][(pc \in {"raise", "failed"}) => inventory' = inventory]_vars

\* A failed run that leaves groups and a host in the graph.
C10_Witness ==
    /\ pc = "failed"
    /\ error = Wrapped(exc)
    /\ inventory.groups # {}
    /\ inventory.hosts # {}
    /\ parsed # {}

\* C11: a second run on the same fetched records, from an empty graph, ends
\* with the graph of the first run (groups, hosts, memberships, edges and
\* variables).
C11_RunIdempotent ==
    (run = 2 /\ pc = "done") => inventory = first

\* C12: once an admitted host with a nested "vars" mapping is processed, each
\* key is a host variable with its value, the group <key>_<fix_group(value)>
\* exists and the host is a member of it.
C12_NestedVarsJoinGroups ==
    pc \in {"register", "done"} =>
        \A j \in parsed :
            LET name == NameOf(Get(Fetched[j], config.unique_id_key))
                host_vars == Get(Fetched[j], K_vars)
            IN  IsDict(host_vars) =>
                    \A k \in Range(Keys(host_vars)) :
                        /\ Get(inventory.hvars[name], k) = Get(host_vars, k)
                        /\ (k \o <<"_">> \o fix_group(Get(host_vars, k))) \in inventory.groups
                        /\ <<k \o <<"_">> \o fix_group(Get(host_vars, k)), name>>
                               \in inventory.members

\* C13: no group name of the graph contains "-", "+" or ".".
C13_GroupNamesNormalized ==
    \A g \in inventory.groups : \A i \in DOMAIN g : g[i] \notin {"-", "+", "."}

\* One iteration of the host loop, for a host that HostFilter retains.
HostStep ==
    /\ pc = "register"
    /\ gi > Len(Keys(groups))
    /\ hi <= Len(hosts)
    /\ hi' = hi + 1
    /\ hi \in parsed'

\* C14: for an admitted host without a "group" value (absent or empty) no
\* group registration is made, the host joins no group of the merged map, the
\* later steps run (its name_ group is joined) and the step does not fail in
\* group registration; a host with a non-empty "group" whose step succeeds
\* is registered from the merged record and joined to fix_group(group).
C14_AbsentGroupSkipped ==
    [][HostStep =>
        LET host == hosts[hi]
            group == Get(host, K_group)
            name == NameOf(Get(host, config.unique_id_key))
        IN  /\ (IsNone(group) \/ group = S(<<>>)) =>
                  /\ registered' = registered
                  /\ \A k \in Range(Keys(groups)) :
                        <<k, name>> \in inventory'.members => <<k, name>> \in inventory.members
                  /\ ~(exc'.type = "TypeError" /\ exc'.subject = fix_group(group))
                  /\ (name # <<>> /\ ~IsNone(Get(host, K_name)) /\ IsNone(Get(host, K_os_version)))
                     => <<P_name \o fix_group(Get(host, K_name)), name>> \in inventory'.members
            /\ (~IsNone(group) /\ group # S(<<>>) /\ pc' # "raise") =>
                  /\ registered' = Append(registered, <<fix_group(group), Get(groups, fix_group(group))>>)
                  /\ <<fix_group(group), name>> \in inventory'.members]_vars

\* C15: without a configured group_suffix, every merged group the loop has
\* reached was registered once, in order, from its own record, the loop did
\* not fail on the suffix, and the graph has no edge but those the merged
\* records list.
C15_SuffixOptional ==
    ~SuffixOn =>
        /\ \A i \in 1..(gi - 1) :
              /\ i <= Len(registered)
              /\ registered[i] = <<Keys(groups)[i], Get(groups, Keys(groups)[i])>>
        /\ ~(exc.type = "TypeError" /\ hi = 1 /\ gi > 1)
        /\ \A e \in inventory.children : e[2] \in RecordChildren(Get(groups, e[1]))

====
